---- MODULE Spec2Model ----
(***************************************************************************)
(* bed_to_tabix command line entry point (bed_to_tabix/cli.py).            *)
(*                                                                         *)
(* One run of main(): docopt's argument mapping is resolved by             *)
(* parse_arguments (version, thread count, output path, tool paths,        *)
(* overwrite guard), logging is installed, run_pipeline is called inside   *)
(* try/except/finally and cleanup_temp_files runs in the finally block.    *)
(*                                                                         *)
(* Python strings are sequences of characters, so that basename,           *)
(* str.replace, str.endswith, os.path.join and int() are computed          *)
(* character by character (in the sample tool paths the tool's name stands *)
(* as one symbol).  A value that may be None, a str or an int is a record  *)
(* [type, s, n].                                                           *)
(***************************************************************************)
EXTENDS Integers, Sequences, FiniteSets, TLC

VARIABLES
    argv,          \* the command line, as the user typed it (never changes)
    environ,       \* os.environ: env var name -> str
    cwd,           \* os.getcwd()
    files,         \* paths for which os.path.isfile is true
    arguments,     \* the mapping docopt returned, mutated by parse_arguments
    pc,            \* position of the control thread in main()/parse_arguments
    i,             \* index of the tool-path loop over varnames
    exc,           \* exception propagating in the control thread
    stdout,        \* what print() wrote
    log,           \* logger.warning / logger.info records
    loglevel,      \* level handed to coloredlogs.install
    calls,         \* keyword arguments of each run_pipeline invocation
    cleanupCalls,  \* number of cleanup_temp_files invocations
    exitStatus     \* process exit status once pc = "exited"

vars == <<argv, environ, cwd, files, arguments, pc, i, exc, stdout, log,
          loglevel, calls, cleanupCalls, exitStatus>>

---------------------------------------------------------------------------
(* Bounds of the input space *)

MaxIn == 2           \* longest list of --in BED files
MaxEmptyFlags == 1   \* most --path-to-<tool> flags given as the empty string

---------------------------------------------------------------------------
(* Python values *)

PyNone == [type |-> "NoneType", s |-> <<>>, n |-> 0]
PyStr(str) == [type |-> "str", s |-> str, n |-> 0]
PyInt(num) == [type |-> "int", s |-> <<>>, n |-> num]

\* Python truth value of None / str / int, as used by `if x:` and `if not x:`.
Truthy(v) ==
    CASE v.type = "NoneType" -> FALSE
      [] v.type = "str" -> v.s # <<>>
      [] v.type = "int" -> v.n # 0

---------------------------------------------------------------------------
(* String functions of the standard library, as cli.py uses them *)

DotBed == <<".", "b", "e", "d">>
DotVcf == <<".", "v", "c", "f">>
DotGz == <<".", "g", "z">>
Sep == <<"_", "_">>

startswith(str, prefix) ==
    /\ Len(str) >= Len(prefix)
    /\ SubSeq(str, 1, Len(prefix)) = prefix

endswith(str, suffix) ==
    /\ Len(str) >= Len(suffix)
    /\ SubSeq(str, Len(str) - Len(suffix) + 1, Len(str)) = suffix

\* str.replace(old, new) for a non-empty old: leftmost, non-overlapping.
RECURSIVE replace(_, _, _)
replace(str, old, new) ==
    IF str = <<>> THEN <<>>
    ELSE IF startswith(str, old)
         THEN new \o replace(SubSeq(str, Len(old) + 1, Len(str)), old, new)
         ELSE <<Head(str)>> \o replace(Tail(str), old, new)

\* os.path.basename: what follows the last "/".
RECURSIVE basename(_)
basename(path) ==
    IF path = <<>> THEN <<>>
    ELSE IF path[Len(path)] = "/" THEN <<>>
    ELSE basename(SubSeq(path, 1, Len(path) - 1)) \o <<path[Len(path)]>>

\* posixpath.join(a, b).
join(a, b) ==
    IF startswith(b, <<"/">>) THEN b
    ELSE IF a = <<>> \/ endswith(a, <<"/">>) THEN a \o b
    ELSE a \o <<"/">> \o b

\* sep.join(parts) of str.join.
RECURSIVE strjoin(_, _)
strjoin(sep, parts) ==
    IF parts = <<>> THEN <<>>
    ELSE IF Len(parts) = 1 THEN parts[1]
    ELSE parts[1] \o sep \o strjoin(sep, Tail(parts))

Digits == {"0", "1", "2", "3", "4", "5", "6", "7", "8", "9"}

DigitValue(c) ==
    CASE c = "0" -> 0 [] c = "1" -> 1 [] c = "2" -> 2 [] c = "3" -> 3
      [] c = "4" -> 4 [] c = "5" -> 5 [] c = "6" -> 6 [] c = "7" -> 7
      [] c = "8" -> 8 [] c = "9" -> 9

RECURSIVE strip(_)
strip(str) ==
    IF str # <<>> /\ Head(str) = " " THEN strip(Tail(str))
    ELSE IF str # <<>> /\ str[Len(str)] = " "
         THEN strip(SubSeq(str, 1, Len(str) - 1))
         ELSE str

RECURSIVE DecimalValue(_)
DecimalValue(ds) ==
    IF ds = <<>> THEN 0
    ELSE DecimalValue(SubSeq(ds, 1, Len(ds) - 1)) * 10
         + DigitValue(ds[Len(ds)])

Unsigned(str) ==
    IF str # <<>> /\ Head(str) \in {"+", "-"} THEN Tail(str) ELSE str

\* int(str) succeeds on optional blanks, an optional sign and decimal digits
\* (digit-group underscores and other whitespace are not among the samples).
IsIntLiteral(str) ==
    LET u == Unsigned(strip(str))
    IN  /\ u # <<>>
        /\ \A k \in 1..Len(u) : u[k] \in Digits

\* The value int(str) returns when IsIntLiteral(str).
int(str) ==
    LET t == strip(str)
    IN  IF t # <<>> /\ Head(t) = "-" THEN 0 - DecimalValue(Unsigned(t))
        ELSE DecimalValue(Unsigned(t))

---------------------------------------------------------------------------
(* The command line and docopt *)

defaults == ("--threads" :> 6)

\* varnames with one tool left out of the loop.
varnamesWithoutJava == <<"bcftools", "tabix", "bgzip", "gatk3",
                         "reference_fasta">>

\* varnames in the order of the usage text (java before gatk3).
varnamesUsageOrder == <<"bcftools", "tabix", "bgzip", "java", "gatk3",
                        "reference_fasta">>

varnames == <<"bcftools", "tabix", "bgzip", "gatk3", "java",
              "reference_fasta">>

\* '--' + f'path_to_{varname}'.replace('_', '-')
parameter(varname) ==
    CASE varname = "bcftools" -> "--path-to-bcftools"
      [] varname = "tabix" -> "--path-to-tabix"
      [] varname = "bgzip" -> "--path-to-bgzip"
      [] varname = "gatk3" -> "--path-to-gatk3"
      [] varname = "java" -> "--path-to-java"
      [] varname = "reference_fasta" -> "--path-to-reference-fasta"

\* f'path_to_{varname}'.upper()
env_varname(varname) ==
    CASE varname = "bcftools" -> "PATH_TO_BCFTOOLS"
      [] varname = "tabix" -> "PATH_TO_TABIX"
      [] varname = "bgzip" -> "PATH_TO_BGZIP"
      [] varname = "gatk3" -> "PATH_TO_GATK3"
      [] varname = "java" -> "PATH_TO_JAVA"
      [] varname = "reference_fasta" -> "PATH_TO_REFERENCE_FASTA"

\* The tools named in the usage text.
Tools == {"bcftools", "tabix", "bgzip", "gatk3", "java", "reference_fasta"}

PathOptions == {parameter(t) : t \in Tools}

\* docopt(__doc__): every option of the usage text is a key of the mapping;
\* a flag that was not typed maps to False, a valued option to None.
docopt(a) ==
    ("--in" :> a.bedfiles) @@ ("--out" :> a.out) @@
    ("--threads" :> a.threads) @@ ("--unzipped" :> a.unzipped) @@
    ("--force" :> a.force) @@ ("--dry-run" :> a.dry_run) @@
    ("--debug" :> a.debug) @@ ("--no-cleanup" :> a.no_cleanup) @@
    ("--help" :> FALSE) @@ ("--version" :> a.version) @@
    [p \in PathOptions |-> a.paths[p]]

isfile(path) == path \in files

---------------------------------------------------------------------------
(* Sample inputs *)

BedPaths ==
    { <<"a">> \o DotBed,
      <<"b">> \o DotBed,
      <<"d", "/", "a">> \o DotBed,
      <<"a">> \o DotBed \o <<"s">> \o DotBed,
      <<"a", "l", "l">> \o DotVcf \o DotBed,
      <<"r", ".", "t", "x", "t">> }

InLists == UNION { [1..k -> BedPaths] : k \in 1..MaxIn }

OneBed == << <<"a">> \o DotBed >>

ExplicitOuts ==
    { PyStr(<<>>),
      PyStr(<<"o">>),
      PyStr(<<"o">> \o DotVcf),
      PyStr(<<"o">> \o DotVcf \o DotGz),
      PyStr(<<"/", "t", "/", "o">>) }

ThreadValues ==
    { PyNone,
      PyStr(<<>>),
      PyStr(<<"4">>),
      PyStr(<<"1", "2">>),
      PyStr(<<"0">>),
      PyStr(<<"-", "3">>),
      PyStr(<<" ", "7">>),
      PyStr(<<"a", "b", "c">>) }

Cwds == { <<"/", "w">>, <<"/">> }

FileSets ==
    { {},
      { <<"/", "w", "/", "a">> \o DotVcf \o DotGz,
        <<"/", "a">> \o DotVcf \o DotGz,
        <<"o">> \o DotVcf \o DotGz,
        <<"o">> \o DotVcf } }

FlagPath(t) == <<"/", "f", "/", t>>
EnvPath(t) == <<"/", "e", "/", t>>

\* --path-to-<tool> flags: typed with a path, typed as '', or not typed.
FlagChoices ==
    { [p \in PathOptions |->
          IF p \in {parameter(t) : t \in given} THEN
              PyStr(FlagPath(CHOOSE t \in given : parameter(t) = p))
          ELSE IF p \in {parameter(t) : t \in empty} THEN PyStr(<<>>)
          ELSE PyNone] :
      <<given, empty>> \in
          { ge \in (SUBSET Tools) \X (SUBSET Tools) :
                /\ ge[1] \cap ge[2] = {}
                /\ Cardinality(ge[2]) <= MaxEmptyFlags } }

EnvChoices ==
    { [e \in {env_varname(t) : t \in set} |->
          EnvPath(CHOOSE t \in set : env_varname(t) = e)] :
      set \in SUBSET Tools }

NoFlags == [p \in PathOptions |-> PyNone]

\* PATH_TO_JAVA exported with an empty value.
EmptyJavaEnv ==
    [e \in {env_varname(t) : t \in Tools} |->
        IF e = "PATH_TO_JAVA" THEN <<>>
        ELSE EnvPath(CHOOSE t \in Tools : env_varname(t) = e)]

FullEnv == [e \in {env_varname(t) : t \in Tools} |->
               EnvPath(CHOOSE t \in Tools : env_varname(t) = e)]

CommandLine(ver, thr, beds, out, unz, force, dry, dbg, nocl, paths) ==
    [version |-> ver, threads |-> thr, bedfiles |-> beds, out |-> out,
     unzipped |-> unz, force |-> force, dry_run |-> dry, debug |-> dbg,
     no_cleanup |-> nocl, paths |-> paths]

\* Runs that vary the flags deciding the control flow of main().
InitFlow ==
    /\ \E version \in BOOLEAN, threads \in ThreadValues, force \in BOOLEAN,
          dry_run \in BOOLEAN, debug \in BOOLEAN, no_cleanup \in BOOLEAN,
          bedfiles \in {OneBed, <<>>} :
          \* the usage text requires --in, except with --version
          /\ bedfiles = <<>> => version
          /\ argv = CommandLine(version, threads, bedfiles, PyNone, FALSE,
                                force, dry_run, debug, no_cleanup, NoFlags)
    /\ environ \in {FullEnv, EmptyJavaEnv}
    /\ cwd = <<"/", "w">>
    /\ files \in FileSets

\* Runs that vary the input files, the output path and the working directory.
InitPaths ==
    /\ \E bedfiles \in InLists, out \in {PyNone} \cup ExplicitOuts,
          unzipped \in BOOLEAN :
          /\ out # PyNone => bedfiles = OneBed
          /\ argv = CommandLine(FALSE, PyNone, bedfiles, out, unzipped,
                                FALSE, FALSE, FALSE, FALSE, NoFlags)
    /\ environ = FullEnv
    /\ cwd \in Cwds
    /\ files \in FileSets

\* Runs that vary the tool-path flags and environment variables.
InitTools ==
    /\ \E version \in BOOLEAN, paths \in FlagChoices :
          argv = CommandLine(version, PyNone, OneBed, PyNone, FALSE, FALSE,
                             FALSE, FALSE, FALSE, paths)
    /\ environ \in EnvChoices
    /\ cwd = <<"/", "w">>
    /\ files = {}

Init ==
    /\ InitFlow \/ InitPaths \/ InitTools
    /\ arguments = docopt(argv)
    /\ pc = "version"
    /\ i = 1
    /\ exc = "none"
    /\ stdout = <<>>
    /\ log = <<>>
    /\ loglevel = "unset"
    /\ calls = <<>>
    /\ cleanupCalls = 0
    /\ exitStatus = 0

---------------------------------------------------------------------------
(* How the process ends *)

\* sys.exit() with no argument raises SystemExit(None): status 0.  Any other
\* exception that leaves main() ends the interpreter with status 1.
ExitStatusOf(e) == IF e \in {"none", "SystemExit"} THEN 0 ELSE 1

\* An exception raised in parse_arguments leaves main(): the call is outside
\* the try statement.
Terminate(e) ==
    /\ exc' = e
    /\ pc' = "exited"
    /\ exitStatus' = ExitStatusOf(e)

---------------------------------------------------------------------------
(* parse_arguments *)

VersionMessage == [text |-> "version", parameter |-> "", env_varname |-> ""]

MissingMessage(p, e) == [text |-> "missing", parameter |-> p, env_varname |-> e]

\* The version check placed after the thread-count conversion.
CheckVersionAfterThreads ==
    /\ pc = "version"
    /\ IF Truthy(arguments["--threads"])
          /\ ~IsIntLiteral(arguments["--threads"].s)
       THEN /\ Terminate("ValueError")
            /\ UNCHANGED stdout
       ELSE IF arguments["--version"]
       THEN /\ stdout' = Append(stdout, VersionMessage)
            /\ Terminate("SystemExit")
       ELSE /\ pc' = "threads"
            /\ UNCHANGED <<stdout, exc, exitStatus>>
    /\ UNCHANGED <<argv, environ, cwd, files, arguments, i, log, loglevel,
                   calls, cleanupCalls>>

\* if arguments['--version']: print(...); sys.exit()
CheckVersion ==
    /\ pc = "version"
    /\ IF arguments["--version"]
       THEN /\ stdout' = Append(stdout, VersionMessage)
            /\ Terminate("SystemExit")
       ELSE /\ pc' = "threads"
            /\ UNCHANGED <<stdout, exc, exitStatus>>
    /\ UNCHANGED <<argv, environ, cwd, files, arguments, i, log, loglevel,
                   calls, cleanupCalls>>

\* The thread count left as docopt's string.
ThreadsValueRaw(v) ==
    IF Truthy(v) THEN v ELSE PyInt(defaults["--threads"])

\* The value the thread-count branch stores under '--threads'.
ThreadsValue(v) ==
    IF Truthy(v) THEN PyInt(int(v.s)) ELSE PyInt(defaults["--threads"])

\* A thread count that is no integer literal replaced by the default.
ParseThreadsLenient ==
    /\ pc = "threads"
    /\ arguments' = [arguments EXCEPT
                        !["--threads"] =
                            IF Truthy(@) /\ IsIntLiteral(@.s)
                            THEN PyInt(int(@.s))
                            ELSE PyInt(defaults["--threads"])]
    /\ pc' = "out"
    /\ UNCHANGED <<argv, environ, cwd, files, i, exc, stdout, log, loglevel,
                   calls, cleanupCalls, exitStatus>>

\* arguments['--threads'] = int(...) or the default; int() raises ValueError
\* on a string that is no integer literal, and nothing catches it.
ParseThreads ==
    /\ pc = "threads"
    /\ IF Truthy(arguments["--threads"])
          /\ ~IsIntLiteral(arguments["--threads"].s)
       THEN /\ Terminate("ValueError")
            /\ UNCHANGED arguments
       ELSE /\ arguments' = [arguments EXCEPT
                                !["--threads"] = ThreadsValue(@)]
            /\ pc' = "out"
            /\ UNCHANGED <<exc, exitStatus>>
    /\ UNCHANGED <<argv, environ, cwd, files, i, stdout, log, loglevel,
                   calls, cleanupCalls>>

\* basename(bed).replace('.bed', '')
BedStem(bed) == replace(basename(bed), DotBed, <<>>)

\* join(getcwd(), '__'.join(... for bed in arguments['--in']))
DerivedOut(bedfiles, dir) ==
    join(dir, strjoin(Sep, [k \in 1..Len(bedfiles) |-> BedStem(bedfiles[k])]))

\* '.vcf' appended without looking at the path's end.
WithVcfAlways(out) == out \o DotVcf

\* if not arguments['--out'].endswith('.vcf'): arguments['--out'] += '.vcf'
WithVcf(out) == IF ~endswith(out, DotVcf) THEN out \o DotVcf ELSE out

\* if not arguments['--unzipped']: arguments['--out'] += '.gz'
WithGz(out, unzipped) == IF ~unzipped THEN out \o DotGz ELSE out

\* The output path as the three statements on '--out' leave it.
ResolvedOut(args, dir) ==
    LET base == IF ~Truthy(args["--out"])
                THEN DerivedOut(args["--in"], dir)
                ELSE args["--out"].s
    IN  WithGz(WithVcf(base), args["--unzipped"])

ResolveOut ==
    /\ pc = "out"
    /\ arguments' = [arguments EXCEPT
                        !["--out"] = PyStr(ResolvedOut(arguments, cwd))]
    /\ pc' = "tools"
    /\ UNCHANGED <<argv, environ, cwd, files, i, exc, stdout, log, loglevel,
                   calls, cleanupCalls, exitStatus>>

\* The loop body with sys.exit(1) for a missing tool.
ResolveToolExitOne ==
    /\ pc = "tools"
    /\ i <= Len(varnames)
    /\ LET p == parameter(varnames[i])
           e == env_varname(varnames[i])
       IN  IF Truthy(arguments[p])
           THEN /\ i' = i + 1
                /\ UNCHANGED <<arguments, stdout, pc, exc, exitStatus>>
           ELSE IF e \in DOMAIN environ
           THEN /\ arguments' = [arguments EXCEPT ![p] = PyStr(environ[e])]
                /\ i' = i + 1
                /\ UNCHANGED <<stdout, pc, exc, exitStatus>>
           ELSE /\ stdout' = Append(stdout, MissingMessage(p, e))
                /\ exc' = "SystemExit"
                /\ pc' = "exited"
                /\ exitStatus' = 1
                /\ UNCHANGED <<arguments, i>>
    /\ UNCHANGED <<argv, environ, cwd, files, log, loglevel, calls,
                   cleanupCalls>>

\* One iteration of `for varname in varnames`.
ResolveTool ==
    /\ pc = "tools"
    /\ i <= Len(varnames)
    /\ LET p == parameter(varnames[i])
           e == env_varname(varnames[i])
       IN  IF Truthy(arguments[p])
           THEN /\ i' = i + 1
                /\ UNCHANGED <<arguments, stdout, pc, exc, exitStatus>>
           ELSE IF e \in DOMAIN environ
           THEN /\ arguments' = [arguments EXCEPT ![p] = PyStr(environ[e])]
                /\ i' = i + 1
                /\ UNCHANGED <<stdout, pc, exc, exitStatus>>
           ELSE /\ stdout' = Append(stdout, MissingMessage(p, e))
                /\ Terminate("SystemExit")
                /\ UNCHANGED <<arguments, i>>
    /\ UNCHANGED <<argv, environ, cwd, files, log, loglevel, calls,
                   cleanupCalls>>

\* if '--force' not in arguments and isfile(arguments['--out']): ... exit
\* else: return arguments
OverwriteGuard ==
    /\ pc = "tools"
    /\ i > Len(varnames)
    /\ IF "--force" \notin DOMAIN arguments /\ isfile(arguments["--out"].s)
       THEN /\ log' = Append(log, [level |-> "WARNING",
                                   msg |-> "output file already exists"])
            /\ Terminate("SystemExit")
       ELSE /\ pc' = "logging"
            /\ UNCHANGED <<log, exc, exitStatus>>
    /\ UNCHANGED <<argv, environ, cwd, files, arguments, i, stdout, loglevel,
                   calls, cleanupCalls>>

---------------------------------------------------------------------------
(* main *)

\* loglevel = 'DEBUG' if arguments['--debug'] else 'INFO'; coloredlogs.install
InstallLogging ==
    /\ pc = "logging"
    /\ loglevel' = IF arguments["--debug"] THEN "DEBUG" ELSE "INFO"
    /\ pc' = "try"
    /\ UNCHANGED <<argv, environ, cwd, files, arguments, i, exc, stdout, log,
                   calls, cleanupCalls, exitStatus>>

\* The keyword arguments of the run_pipeline call.
Kwargs(args) ==
    [bedfiles |-> args["--in"],
     threads |-> args["--threads"],
     outfile |-> args["--out"],
     gzip_output |-> ~args["--unzipped"],
     dry_run |-> args["--dry-run"],
     path_to_bcftools |-> args["--path-to-bcftools"],
     path_to_java |-> args["--path-to-java"],
     path_to_tabix |-> args["--path-to-tabix"],
     path_to_gatk3 |-> args["--path-to-gatk3"],
     path_to_bgzip |-> args["--path-to-bgzip"],
     path_to_reference_fasta |-> args["--path-to-reference-fasta"]]

CallRunPipeline ==
    /\ pc = "try"
    /\ calls' = Append(calls, Kwargs(arguments))
    /\ pc' = "run_pipeline"
    /\ UNCHANGED <<argv, environ, cwd, files, arguments, i, exc, stdout, log,
                   loglevel, cleanupCalls, exitStatus>>

\* The ways a call of run_pipeline ends: it returns, or raises.
Outcomes == {"none", "CalledProcessError", "KeyboardInterrupt", "Exception"}

\* The clause of the try statement that takes over when the body ends with e.
Handler(e) ==
    CASE e = "KeyboardInterrupt" -> "except_KeyboardInterrupt"
      [] e = "CalledProcessError" -> "except_CalledProcessError"
      [] OTHER -> "finally"

RunPipelineEnds ==
    /\ pc = "run_pipeline"
    /\ \E e \in Outcomes :
          /\ exc' = e
          /\ pc' = Handler(e)
    /\ UNCHANGED <<argv, environ, cwd, files, arguments, i, stdout, log,
                   loglevel, calls, cleanupCalls, exitStatus>>

\* except KeyboardInterrupt: logger.warning(...); sys.exit()
ExceptKeyboardInterrupt ==
    /\ pc = "except_KeyboardInterrupt"
    /\ log' = Append(log, [level |-> "WARNING",
                           msg |-> "User stopped the program"])
    /\ exc' = "SystemExit"
    /\ pc' = "finally"
    /\ UNCHANGED <<argv, environ, cwd, files, arguments, i, stdout, loglevel,
                   calls, cleanupCalls, exitStatus>>

\* except CalledProcessError as error: logger.warning(...); sys.exit()
ExceptCalledProcessError ==
    /\ pc = "except_CalledProcessError"
    /\ log' = Append(log, [level |-> "WARNING",
                           msg |-> "The following command failed"])
    /\ exc' = "SystemExit"
    /\ pc' = "finally"
    /\ UNCHANGED <<argv, environ, cwd, files, arguments, i, stdout, loglevel,
                   calls, cleanupCalls, exitStatus>>

\* The cleanup written after the try statement instead of in a finally
\* clause: an exception leaving the statement skips it.
CleanupAfterTry ==
    /\ pc = "finally"
    /\ IF exc # "none"
       THEN UNCHANGED <<log, cleanupCalls>>
       ELSE IF arguments["--no-cleanup"]
       THEN /\ log' = Append(log, [level |-> "INFO",
                                   msg |-> "No cleanup requested"])
            /\ UNCHANGED cleanupCalls
       ELSE /\ log' = Append(log, [level |-> "INFO",
                                   msg |-> "Cleaning up temporary files"])
            /\ cleanupCalls' = cleanupCalls + 1
    /\ pc' = "exited"
    /\ exitStatus' = ExitStatusOf(exc)
    /\ UNCHANGED <<argv, environ, cwd, files, arguments, i, exc, stdout,
                   loglevel, calls>>

\* finally: the cleanup, then the pending exception (if any) leaves main().
Finally ==
    /\ pc = "finally"
    /\ IF arguments["--no-cleanup"]
       THEN /\ log' = Append(log, [level |-> "INFO",
                                   msg |-> "No cleanup requested"])
            /\ UNCHANGED cleanupCalls
       ELSE /\ log' = Append(log, [level |-> "INFO",
                                   msg |-> "Cleaning up temporary files"])
            /\ cleanupCalls' = cleanupCalls + 1
    /\ pc' = "exited"
    /\ exitStatus' = ExitStatusOf(exc)
    /\ UNCHANGED <<argv, environ, cwd, files, arguments, i, exc, stdout,
                   loglevel, calls>>

Next ==
    \/ CheckVersion
    \/ ParseThreads
    \/ ResolveOut
    \/ ResolveTool
    \/ OverwriteGuard
    \/ InstallLogging
    \/ CallRunPipeline
    \/ RunPipelineEnds
    \/ ExceptKeyboardInterrupt
    \/ ExceptCalledProcessError
    \/ Finally

Spec == Init /\ [][Next]_vars

---------------------------------------------------------------------------
(* Vocabulary of the properties *)

\* parse_arguments has returned its mapping to main().
ParseReturned ==
    \/ pc \in {"logging", "try", "run_pipeline", "except_KeyboardInterrupt",
               "except_CalledProcessError", "finally"}
    \/ pc = "exited" /\ loglevel # "unset"

\* The process ended inside parse_arguments.
EarlyExit == pc = "exited" /\ loglevel = "unset"

\* The statements on '--out' have run.
OutResolved == arguments["--threads"].type = "int" /\ pc # "out"

\* The typed thread count is no integer literal.
BadThreads == Truthy(argv.threads) /\ ~IsIntLiteral(argv.threads.s)

\* Neither --path-to-<tool> nor PATH_TO_<TOOL> is set.
Unset(t) ==
    /\ argv.paths[parameter(t)] = PyNone
    /\ env_varname(t) \notin DOMAIN environ

\* No usable value for the tool: flag absent or empty, variable not set.
Missing(t) ==
    /\ ~Truthy(argv.paths[parameter(t)])
    /\ env_varname(t) \notin DOMAIN environ

\* The order in which the tools are looked up, as documented.
LookupOrder == <<"bcftools", "tabix", "bgzip", "gatk3", "java",
                 "reference_fasta">>

FirstMissing ==
    LookupOrder[CHOOSE k \in 1..Len(LookupOrder) :
                    /\ Missing(LookupOrder[k])
                    /\ \A j \in 1..(k - 1) : ~Missing(LookupOrder[j])]

\* The path of tool t among the keyword arguments of a run_pipeline call.
HandedPath(call, t) ==
    CASE t = "bcftools" -> call.path_to_bcftools
      [] t = "tabix" -> call.path_to_tabix
      [] t = "bgzip" -> call.path_to_bgzip
      [] t = "gatk3" -> call.path_to_gatk3
      [] t = "java" -> call.path_to_java
      [] t = "reference_fasta" -> call.path_to_reference_fasta

\* A file name with its .bed extension removed.
StripBedExtension(name) ==
    IF endswith(name, DotBed)
    THEN SubSeq(name, 1, Len(name) - Len(DotBed))
    ELSE name

---------------------------------------------------------------------------
(* C1: once run_pipeline has been invoked, cleanup_temp_files is called     *)
(* exactly once before the process ends when --no-cleanup is not set and   *)
(* never when it is set, however run_pipeline ends (return,                *)
(* CalledProcessError, KeyboardInterrupt, any other exception).            *)
CleanupExactlyOnce ==
    /\ cleanupCalls <= 1
    /\ argv.no_cleanup => cleanupCalls = 0
    /\ (pc = "exited" /\ calls # <<>>) =>
           cleanupCalls = IF argv.no_cleanup THEN 0 ELSE 1

CleanupAfterInterruptWitness ==
    /\ pc = "exited"
    /\ calls # <<>>
    /\ ~argv.no_cleanup
    /\ cleanupCalls = 1
    /\ \E k \in 1..Len(log) : log[k].msg = "User stopped the program"

(* C2: with the mapping docopt produces, an existing output file and no     *)
(* --force end the process in parse_arguments: run_pipeline is invoked     *)
(* only if --force was given or the resolved output file does not exist.   *)
OverwriteRefusedUnlessForced ==
    calls # <<>> => (argv.force \/ ~isfile(calls[1].outfile.s))

(* C3: for each of the six tools, if neither its flag nor its environment   *)
(* variable is set, the run ends during argument resolution and            *)
(* run_pipeline is never invoked, whatever the other five are.             *)
UnsetToolStopsRun ==
    \A t \in Tools :
        Unset(t) => /\ calls = <<>>
                    /\ cleanupCalls = 0
                    /\ ~ParseReturned
                    /\ (pc = "tools" => i <= Len(varnames))

UnsetJavaWitness ==
    /\ pc = "exited"
    /\ Unset("java")
    /\ \A t \in Tools \ {"java"} : ~Missing(t)
    /\ stdout = <<MissingMessage("--path-to-java", "PATH_TO_JAVA")>>
    /\ calls = <<>>

(* C4: with no --out, the resolved output path is the working directory     *)
(* joined with the inputs' basenames, each with its .bed extension         *)
(* stripped, joined by '__' in input order, followed by '.vcf' and then    *)
(* '.gz' unless --unzipped is set.                                         *)
DerivedOutIsStrippedBasenames ==
    (OutResolved /\ argv.out = PyNone) =>
        arguments["--out"].s =
            join(cwd, strjoin(Sep, [k \in 1..Len(argv.bedfiles) |->
                          StripBedExtension(basename(argv.bedfiles[k]))]))
            \o DotVcf
            \o (IF argv.unzipped THEN <<>> ELSE DotGz)

(* C5: with --version the identity string is printed and the process exits *)
(* before anything else: the mapping is untouched (no thread conversion,   *)
(* no output path, no tool lookup), nothing else is printed or logged, and *)
(* neither run_pipeline nor cleanup_temp_files is invoked.                 *)
VersionShortCircuits ==
    argv.version =>
        /\ pc \in {"version", "exited"}
        /\ arguments = docopt(argv)
        /\ log = <<>>
        /\ calls = <<>>
        /\ cleanupCalls = 0
        /\ pc = "exited" => /\ stdout = <<VersionMessage>>
                            /\ exc = "SystemExit"
                            /\ exitStatus = 0

VersionWithBadThreadsWitness ==
    /\ argv.version
    /\ BadThreads
    /\ isfile(ResolvedOut(docopt(argv), cwd))
    /\ pc = "exited"
    /\ stdout = <<VersionMessage>>

(* C6: run_pipeline is invoked at most once and only after parse_arguments  *)
(* has returned; when resolution exits early (version, non-numeric thread  *)
(* count, missing tool path) neither run_pipeline nor cleanup_temp_files   *)
(* is ever called.                                                         *)
PipelineOnlyAfterResolution ==
    /\ Len(calls) <= 1
    /\ calls # <<>> => ParseReturned
    /\ EarlyExit => (calls = <<>> /\ cleanupCalls = 0)
    /\ (argv.version \/ BadThreads \/ \E t \in Tools : Missing(t)) =>
           (calls = <<>> /\ cleanupCalls = 0 /\ ~ParseReturned)

BadThreadsExitWitness ==
    /\ EarlyExit
    /\ ~argv.version
    /\ BadThreads
    /\ exc = "ValueError"
    /\ calls = <<>>

(* C7 as stated: each tool path handed to run_pipeline is the flag's value  *)
(* whenever the flag is given, else the value of PATH_TO_<TOOL>.           *)
HandedPathIsFlagIfGiven ==
    calls # <<>> =>
        \A t \in Tools :
            HandedPath(calls[1], t) =
                IF argv.paths[parameter(t)] # PyNone
                THEN argv.paths[parameter(t)]
                ELSE PyStr(environ[env_varname(t)])

(* C7 amended: each tool path handed to run_pipeline is the flag's value    *)
(* when the flag is given with a non-empty value (even if the variable is  *)
(* set too), else the value of PATH_TO_<TOOL>; when several tools have     *)
(* neither, resolution halts at the first in the order bcftools, tabix,    *)
(* bgzip, gatk3, java, reference_fasta and prints one message, naming that *)
(* tool's flag and variable only.                                          *)
HandedPathIsNonEmptyFlagElseEnv ==
    /\ calls # <<>> =>
           \A t \in Tools :
               HandedPath(calls[1], t) =
                   IF Truthy(argv.paths[parameter(t)])
                   THEN argv.paths[parameter(t)]
                   ELSE PyStr(environ[env_varname(t)])
    /\ (pc = "exited" /\ ~argv.version /\ ~BadThreads
          /\ \E t \in Tools : Missing(t)) =>
           stdout = <<MissingMessage(parameter(FirstMissing),
                                     env_varname(FirstMissing))>>

FirstOfTwoMissingWitness ==
    /\ pc = "exited"
    /\ Missing("gatk3")
    /\ Missing("java")
    /\ argv.paths["--path-to-bcftools"] = PyStr(FlagPath("bcftools"))
    /\ "PATH_TO_BCFTOOLS" \in DOMAIN environ
    /\ arguments["--path-to-bcftools"] = PyStr(FlagPath("bcftools"))
    /\ arguments["--path-to-tabix"] = PyStr(EnvPath("tabix"))
    /\ stdout = <<MissingMessage("--path-to-gatk3", "PATH_TO_GATK3")>>

(* C8: for any output path, explicit or derived, '.vcf' is appended only if *)
(* the path does not end with '.vcf' already, and '.gz' is then appended   *)
(* if and only if --unzipped is not set; so the resolved path ends with    *)
(* '.vcf.gz' without --unzipped and with '.vcf', never '.gz', with it.     *)
OutSuffixes ==
    OutResolved =>
        LET base == IF Truthy(argv.out) THEN argv.out.s
                    ELSE DerivedOut(argv.bedfiles, cwd)
            out == arguments["--out"].s
        IN  /\ out = base
                     \o (IF endswith(base, DotVcf) THEN <<>> ELSE DotVcf)
                     \o (IF argv.unzipped THEN <<>> ELSE DotGz)
            /\ ~argv.unzipped => endswith(out, DotVcf \o DotGz)
            /\ argv.unzipped => (endswith(out, DotVcf) /\ ~endswith(out, DotGz))

VcfKeptUnzippedWitness ==
    /\ OutResolved
    /\ argv.out = PyStr(<<"o">> \o DotVcf)
    /\ argv.unzipped
    /\ arguments["--out"] = PyStr(<<"o">> \o DotVcf)

(* C9 as stated: the thread count handed to run_pipeline is an integer: the *)
(* integer value of --threads whenever the flag is present, 6 when absent. *)
ThreadsIsFlagValueOrSix ==
    calls # <<>> =>
        /\ calls[1].threads.type = "int"
        /\ argv.threads = PyNone => calls[1].threads.n = 6
        /\ argv.threads # PyNone =>
               /\ IsIntLiteral(argv.threads.s)
               /\ calls[1].threads.n = int(argv.threads.s)

(* C9 amended: the thread count handed to run_pipeline is an integer, never *)
(* the raw string: the integer value of --threads when the flag is present *)
(* with a non-empty value, and 6 when it is absent or empty.               *)
ThreadsIsNonEmptyFlagValueOrSix ==
    calls # <<>> =>
        /\ calls[1].threads.type = "int"
        /\ calls[1].threads.s = <<>>
        /\ argv.threads \in {PyNone, PyStr(<<>>)} => calls[1].threads.n = 6
        /\ argv.threads \notin {PyNone, PyStr(<<>>)} =>
               /\ IsIntLiteral(argv.threads.s)
               /\ calls[1].threads.n = int(argv.threads.s)

ZeroThreadsWitness ==
    /\ calls # <<>>
    /\ argv.threads = PyStr(<<"0">>)
    /\ calls[1].threads = PyInt(0)

(* C10 as stated: every early exit of argument resolution (version, missing *)
(* tool path, non-numeric thread count, existing output) ends the process  *)
(* with exit status 0.                                                     *)
EarlyExitStatusZero == EarlyExit => exitStatus = 0

(* C10 amended: the early exits made by sys.exit() (version, missing tool   *)
(* path, existing output) end the process with status 0 and cannot be told *)
(* apart by it; a non-numeric thread count ends it with an uncaught        *)
(* ValueError, status 1.                                                   *)
SysExitStatusZeroValueErrorOne ==
    EarlyExit =>
        /\ exc \in {"SystemExit", "ValueError"}
        /\ exc = "SystemExit" <=> exitStatus = 0
        /\ exc = "ValueError" <=> exitStatus = 1
        /\ argv.version => exitStatus = 0
        /\ (~argv.version /\ BadThreads) => exitStatus = 1
        /\ (~argv.version /\ ~BadThreads) => exitStatus = 0

MissingToolExitWitness ==
    /\ EarlyExit
    /\ ~argv.version
    /\ \E t \in Tools : Missing(t)
    /\ Len(stdout) = 1
    /\ stdout[1].text = "missing"
    /\ exitStatus = 0

====
